---- MODULE Spec2Model ----
(***************************************************************************)
(* Kernel4HEP notebook (QML/Kernel4HEP): signal/background classification  *)
(* with a quantum-kernel SVM, a linear SVM and a SamplerQNN classifier.    *)
(*                                                                         *)
(* The notebook is a sequence of code cells run top to bottom over one     *)
(* global namespace.  Each code cell is one action; pc names the next cell *)
(* to run; a cell that raises leaves the namespace as it was at the raise  *)
(* and stops the run (pc = "error", failed = the cell).                    *)
(*                                                                         *)
(* Numbers.  Raw features are small integers.  A standardized value        *)
(* z = (x - mean) / std is kept exactly as the pair <<num, den2>> with     *)
(* z = num / sqrt(den2): for a column with n rows, sum S and sum of        *)
(* squares Q, mean = S/n and std^2 = (n*Q - S^2)/n^2, so                   *)
(* z = (n*x - S) / sqrt(n*Q - S^2).  A raw value x is <<x, 1>>.            *)
(***************************************************************************)
EXTENDS Integers, Sequences, FiniteSets, TLC

\* ------------------------------------------------------------------ bounds
\* Rows of bkg.npy and sig.npy together (the notebook's files hold thousands).
MaxRows == 4
\* Subsample size: 200 in the notebook (cell 7ac4435f), scaled down with MaxRows
\* so that datasets smaller than, equal to and larger than it are enumerated.
max_samples == 3

\* Largest feature count of the datasets that reach feature selection.
MaxFeatures == 3
\* States of numpy's global generator at the start of the run (it is seeded from
\* the operating system's entropy, never by the notebook).
MaxRngState == 1
\* Executions of the feature-selection cells in one session.
MaxRuns == 2
\* Probabilities are counted in units of 1/FidUnit: FidUnit stands for 1.
FidUnit == 2

\* Raw feature values and column counts of the enumerated input arrays.
FeatureValues == {0, 1}
FeatureCounts == {1, 2}
\* Values of the nearest-neighbour mutual-information estimate before clipping.
KnnEstimates == {-1, 0, 1}

VARIABLES
  bkg, sig,        \* the arrays of bkg.npy and sig.npy: [rows, ncols]
  pc, failed,      \* next cell to run; the cell that raised ("" if none)
  defined,         \* names bound in the notebook namespace
  X, y, y_named,   \* feature matrix, numeric labels, named labels
  feature_names,   \* number of feature columns F (Feature_1 .. Feature_F)
  data,            \* the DataFrame: rows [idx, feat, Label]
  scaler,          \* the fitted StandardScaler: [n, sum, sumsq] per column
  \* ---- feature selection
  np_random,       \* state of numpy's global RandomState (np.random)
  mi_knn,          \* per feature, what the k-NN estimator returns on this data
  sort_tie_order,  \* the order in which this build's sort leaves equal keys
  mi_labels,       \* the label vector last given to mutual_info_classif
  mi_scores, mi_scores_df, top_features, X_selected,
  mi_runs,         \* executions of cell 5ad439fc so far
  prev_top_features, prev_X_selected, \* results of the previous execution
  \* ---- training and evaluation
  X_train, X_test, y_train, y_test,
  heap,            \* the objects built so far: heap[id] is the object's fields
  feature_map, sampler, fidelity, quantum_kernel, adhoc_svc,  \* names -> object ids
  train_features, test_features, train_labels, test_labels,
  fid_memo,        \* what the sampler has returned: <<circuit, x, y>> -> quasi-probability
  adhoc_score, y_pred, adhoc_matrix_train, adhoc_matrix_test,
  classical_svc, classical_score, y_pred_classical,
  ansatz, qc, sampler_qnn, classifier,                        \* names -> object ids
  qnn_quasi_dists, \* per test row, the quasi-distribution the sampler returned
  qnn_forward,     \* per test row, the output of the network
  y_pred_qnn

preVars == <<bkg, sig, pc, failed, defined, X, y, y_named, feature_names, data, scaler>>

\* The environment of feature selection, fixed for a session.
selEnv == <<mi_knn, sort_tie_order>>

selVars == <<np_random, mi_labels, mi_scores, mi_scores_df, top_features, X_selected,
             mi_runs, prev_top_features, prev_X_selected>>

splitVars == <<X_train, X_test, y_train, y_test>>

kernelVars == <<heap, feature_map, sampler, fidelity, quantum_kernel, adhoc_svc,
                train_features, test_features, train_labels, test_labels,
                fid_memo, adhoc_score, y_pred, adhoc_matrix_train, adhoc_matrix_test>>

classicalVars == <<classical_svc, classical_score, y_pred_classical>>

qnnVars == <<ansatz, qc, sampler_qnn, classifier, qnn_quasi_dists, qnn_forward, y_pred_qnn>>

trainVars == <<splitVars, kernelVars, classicalVars, qnnVars>>

vars == <<preVars, selEnv, selVars, trainVars>>

\* ------------------------------------------------------------ small helpers
RECURSIVE SumSeq(_)
SumSeq(s) == IF s = <<>> THEN 0 ELSE Head(s) + SumSeq(Tail(s))

Abs(v) == IF v < 0 THEN -v ELSE v

Column(rows, f) == [i \in 1..Len(rows) |-> rows[i][f]]

\* An array of shape (n, F): n rows of F values each.
Arrays(F) == UNION {[rows : [1..n -> [1..F -> FeatureValues]], ncols : {F}] : n \in 0..MaxRows}

NRows(a) == Len(a.rows)

\* ------------------------------------------------- cell 8669d8fb: load, combine
\* (mutant) the check left out: arrays of any widths are stacked.
VStackUnchecked(a, b) == TRUE

\* np.vstack raises ValueError unless every array has the same number of columns.
VStackOk(a, b) == a.ncols = b.ncols

\* (mutant) the arrays stacked in the other order.
VStackSigFirst(a, b) == [rows |-> b.rows \o a.rows, ncols |-> a.ncols]

\* np.vstack((a, b)): the rows of a, then the rows of b.
VStack(a, b) == [rows |-> a.rows \o b.rows, ncols |-> a.ncols]

\* np.hstack((np.zeros(n0), np.ones(n1)))
HStackLabels(n0, n1) == [i \in 1..(n0 + n1) |-> IF i <= n0 THEN 0 ELSE 1]

\* label_mapping = {0: "Background", 1: "Signal"}
label_mapping(l) == IF l = 0 THEN "Background" ELSE "Signal"

LoadDataset ==
  /\ pc = "load"
  /\ IF VStackOk(bkg, sig)
       THEN /\ X' = VStack(bkg, sig)
            /\ y' = HStackLabels(NRows(bkg), NRows(sig))
            /\ y_named' = [i \in 1..(NRows(bkg) + NRows(sig)) |->
                             label_mapping(HStackLabels(NRows(bkg), NRows(sig))[i])]
            /\ defined' = defined \cup {"X", "y", "y_named"}
            /\ pc' = "frame"
            /\ failed' = failed
       ELSE /\ pc' = "error"
            /\ failed' = "load"
            /\ UNCHANGED <<X, y, y_named, defined>>
  /\ UNCHANGED <<bkg, sig, feature_names, data, scaler>>
  /\ UNCHANGED <<selEnv, selVars, trainVars>>

\* ------------------------------------- cell 35f16ac7: DataFrame, StandardScaler
\* StandardScaler.fit: per column, the count, the sum and the sum of squares
\* (mean_ = sum/n, var_ = (n*sumsq - sum^2)/n^2, the population variance).
ScalerFit(rows, F) ==
  [n     |-> Len(rows),
   sum   |-> [f \in 1..F |-> SumSeq(Column(rows, f))],
   sumsq |-> [f \in 1..F |-> SumSeq([i \in 1..Len(rows) |-> rows[i][f] * rows[i][f]])]]

\* n^2 * var_ of column f.
VarNum(sc, f) == sc.n * sc.sumsq[f] - sc.sum[f] * sc.sum[f]

\* scale_^2 * n^2: a constant column (var_ = 0) is scaled by 1, not by 0
\* (sklearn's _handle_zeros_in_scale).
Scale2(sc, f) == IF VarNum(sc, f) = 0 THEN sc.n * sc.n ELSE VarNum(sc, f)

\* (mutant) scaling without centering (with_mean=False).
StandardizeNoCentering(sc, f, v) == <<sc.n * v, Scale2(sc, f)>>

\* StandardScaler.transform of one value: (x - mean_) / scale_.
Standardize(sc, f, v) == <<sc.n * v - sc.sum[f], Scale2(sc, f)>>

ScalerTransform(sc, rows, F) ==
  [i \in 1..Len(rows) |-> [f \in 1..F |-> Standardize(sc, f, rows[i][f])]]

BuildFrame ==
  /\ pc = "frame"
  /\ IF NRows(X) >= 1
       THEN /\ feature_names' = X.ncols
            /\ scaler' = ScalerFit(X.rows, X.ncols)
            /\ data' = [i \in 1..NRows(X) |->
                          [idx   |-> i,
                           feat  |-> ScalerTransform(ScalerFit(X.rows, X.ncols), X.rows, X.ncols)[i],
                           Label |-> label_mapping(y[i])]]
            /\ defined' = defined \cup {"feature_names", "data", "scaler"}
            /\ pc' = "subsample"
            /\ failed' = failed
       ELSE \* fit_transform raises on an array with 0 samples; feature_names and
            \* the unscaled frame are already bound.
            /\ feature_names' = X.ncols
            /\ data' = <<>>
            /\ defined' = defined \cup {"feature_names", "data"}
            /\ pc' = "error"
            /\ failed' = "frame"
            /\ scaler' = scaler
  /\ UNCHANGED <<bkg, sig, X, y, y_named>>
  /\ UNCHANGED <<selEnv, selVars, trainVars>>

\* --------------------------------------------- numpy RandomState(seed) stream
\* The first outputs of MT19937 seeded by init_genrand(seed), which is what
\* np.random.RandomState(seed) draws from; random_state=42 builds a fresh one at
\* every call that is given the seed.  Only the low 16 bits of each 32-bit output
\* are kept: random_interval masks a draw to the bits of its bound, and every
\* bound here is far below 2^16.
Mt19937(seed) ==
  IF seed = 42
    THEN <<56422, 15795, 860, 38158, 62570, 54343, 44732, 11284, 54886, 6265, 16850, 62678>>
    ELSE <<2732, 43567, 42613, 52416, 45891, 21243, 30403, 32103, 41993, 57043, 20757, 55026>>

\* The smallest 2^k - 1 that is >= max.
RECURSIVE MaskFor(_, _)
MaskFor(max, m) == IF m >= max THEN m ELSE MaskFor(max, 2 * m + 1)

\* random_interval(max): draws masked to MaskFor(max) until one is <= max
\* (rejection sampling).  [value, next]: the value and the stream position after it.
RECURSIVE RandomInterval(_, _, _)
RandomInterval(seed, max, pos) ==
  LET v == Mt19937(seed)[pos] % (MaskFor(max, 1) + 1)
  IN  IF v <= max THEN [value |-> v, next |-> pos + 1]
                  ELSE RandomInterval(seed, max, pos + 1)

Swap(x, i, j) == [x EXCEPT ![i] = x[j], ![j] = x[i]]

\* RandomState.shuffle: for i = n-1 down to 1, swap x[i] with x[random_interval(i)]
\* (0-based in numpy; positions and values are 1-based here).
RECURSIVE ShuffleFrom(_, _, _, _)
ShuffleFrom(seed, x, i, pos) ==
  IF i < 1 THEN x
  ELSE LET r == RandomInterval(seed, i, pos)
       IN  ShuffleFrom(seed, Swap(x, i + 1, r.value + 1), i - 1, r.next)

\* RandomState(seed).permutation(n)
Permutation(seed, n) == ShuffleFrom(seed, [i \in 1..n |-> i], n - 1, 1)

Take(s, n) == [i \in 1..n |-> s[i]]

\* ------------------------------------------------- cell 7ac4435f: data.sample
\* DataFrame.sample(n=size, random_state=42), replace=False: the row positions are
\* RandomState(42).choice(n, size, replace=False) = permutation(n)[:size];
\* choice raises ValueError when size > n.
SampleOk(n, size) == size <= n

\* (mutant) another seed.
SampleIndexSeed0(n, size) == Take(Permutation(0, n), size)

SampleIndex(n, size) == Take(Permutation(42, n), size)

\* The cell with the size check and the sample size as given.
SubsampleWith(ok, size) ==
  /\ pc = "subsample"
  /\ IF ok
       THEN /\ data' = [k \in 1..size |-> data[SampleIndex(Len(data), size)[k]]]
            /\ X' = [rows  |-> [k \in 1..size |-> data[SampleIndex(Len(data), size)[k]].feat],
                     ncols |-> feature_names]
            /\ y_named' = [k \in 1..size |-> data[SampleIndex(Len(data), size)[k]].Label]
            /\ pc' = "mi"
            /\ failed' = failed
       ELSE /\ pc' = "error"
            /\ failed' = "subsample"
            /\ UNCHANGED <<data, X, y_named>>
  /\ defined' = defined \cup {"max_samples"}
  /\ UNCHANGED <<bkg, sig, y, feature_names, scaler>>
  /\ UNCHANGED <<selEnv, selVars, trainVars>>

Min(a, b) == IF a <= b THEN a ELSE b

\* (mutant) a sample that is cut to the population instead of raising.
SubsampleClamped == SubsampleWith(TRUE, Min(max_samples, Len(data)))

Subsample == SubsampleWith(SampleOk(Len(data), max_samples), max_samples)

\* ------------------------------------------ cell 5ad439fc: mutual information
\* (y_named == "Signal").astype(int)
SignalMask(named) == [i \in DOMAIN named |-> IF named[i] = "Signal" THEN 1 ELSE 0]

\* The noise mutual_info_classif adds to every continuous feature is drawn from
\* the generator it is given; random_state is not passed, so that is numpy's
\* global generator in whatever state it is in.  NoiseShift is what the noise
\* drawn in state rng does to the estimate of feature f: it moves it by 0 or 1.
RECURSIVE Pow2(_)
Pow2(k) == IF k = 0 THEN 1 ELSE 2 * Pow2(k - 1)

NoiseShift(rng, f) == (rng \div Pow2(f - 1)) % 2

Max(a, b) == IF a >= b THEN a ELSE b

\* mutual_info_classif(X, labels, discrete_features=False): per feature, the
\* k-NN estimate on the perturbed column, clipped at 0.
MutualInfoClassif(F, rng) == [f \in 1..F |-> Max(0, mi_knn[f] + NoiseShift(rng, f))]

\* Position of feature f in a sequence of features.
PosIn(order, f) == CHOOSE k \in DOMAIN order : order[k] = f

\* (mutant) ascending order.
SortsBeforeAscending(scores, f, g) ==
  \/ scores[f] < scores[g]
  \/ scores[f] = scores[g] /\ PosIn(sort_tie_order, f) < PosIn(sort_tie_order, g)

\* Row f comes before row g in sort_values(by='MI Score', ascending=False): the
\* higher score first; kind is left at its default 'quicksort', which is not a
\* stable sort, so rows of equal score come in the order the build leaves them.
SortsBefore(scores, f, g) ==
  \/ scores[f] > scores[g]
  \/ scores[f] = scores[g] /\ PosIn(sort_tie_order, f) < PosIn(sort_tie_order, g)

RECURSIVE SortRows(_, _)
SortRows(S, scores) ==
  IF S = {} THEN <<>>
  ELSE LET first == CHOOSE f \in S : \A g \in S \ {f} : SortsBefore(scores, f, g)
       IN  <<[Feature |-> first, Score |-> scores[first]]>> \o SortRows(S \ {first}, scores)

\* DataFrame({'Feature', 'MI Score'}).sort_values(by='MI Score', ascending=False)
SortValues(scores) == SortRows(DOMAIN scores, scores)

MutualInfo ==
  /\ pc = "mi"
  /\ mi_labels' = SignalMask(y_named)
  /\ mi_scores' = MutualInfoClassif(X.ncols, np_random)
  /\ mi_scores_df' = SortValues(MutualInfoClassif(X.ncols, np_random))
  /\ np_random' = np_random + 1
  /\ mi_runs' = mi_runs + 1
  /\ defined' = defined \cup {"mi_scores", "mi_scores_df"}
  /\ pc' = "select"
  /\ UNCHANGED <<bkg, sig, failed, X, y, y_named, feature_names, data, scaler>>
  /\ UNCHANGED <<selEnv, top_features, X_selected, prev_top_features, prev_X_selected>>
  /\ UNCHANGED trainVars

\* ------------------------------------------------ cell 3b953dc6: top features
\* df.head(n): the first n rows, or all of them when there are fewer.
DfHead(df, n) == Take(df, Min(n, Len(df)))

\* mi_scores_df['Feature'].head(2).values
TopFeatures(df) == [k \in DOMAIN DfHead(df, 2) |-> DfHead(df, 2)[k].Feature]

\* data[features].values: the named columns of every row, in the order named.
SelectColumns(frame, features) ==
  [rows  |-> [i \in 1..Len(frame) |-> [k \in DOMAIN features |-> frame[i].feat[features[k]]]],
   ncols |-> Len(features)]

SelectTop ==
  /\ pc = "select"
  /\ top_features' = TopFeatures(mi_scores_df)
  /\ X_selected' = SelectColumns(data, TopFeatures(mi_scores_df))
  /\ defined' = defined \cup {"top_features", "X_selected"}
  /\ pc' = "split"
  /\ UNCHANGED <<bkg, sig, failed, X, y, y_named, feature_names, data, scaler>>
  /\ UNCHANGED <<selEnv, np_random, mi_labels, mi_scores, mi_scores_df, mi_runs,
                 prev_top_features, prev_X_selected>>
  /\ UNCHANGED trainVars

\* The two feature-selection cells executed again in the same session, on the
\* same data; the results of the execution before are kept for comparison.
RerunFeatureSelection ==
  /\ pc = "split"
  /\ mi_runs < MaxRuns
  /\ prev_top_features' = top_features
  /\ prev_X_selected' = X_selected
  /\ pc' = "mi"
  /\ UNCHANGED <<bkg, sig, failed, defined, X, y, y_named, feature_names, data, scaler>>
  /\ UNCHANGED <<selEnv, np_random, mi_labels, mi_scores, mi_scores_df, top_features,
                 X_selected, mi_runs>>
  /\ UNCHANGED trainVars

\* ------------------------- cell 1b22cdf0: train_test_split, the feature map
NoArray == [rows |-> <<>>, ncols |-> 0]

\* train_test_split(test_size=0.2): n_test = ceil(0.2 * n), n_train = n - n_test.
NTest(n) == (n + 4) \div 5

\* It raises ValueError when the training set would be empty.
SplitOk(n) == n - NTest(n) >= 1

\* ShuffleSplit with random_state=42: the first n_test positions of
\* RandomState(42).permutation(n) are the test rows, the rest the training rows.
TestIndex(n) == [k \in 1..NTest(n) |-> Permutation(42, n)[k]]

\* (mutant) the training rows taken from the start of the permutation: they
\* overlap the test rows.
TrainIndexFromStart(n) == [k \in 1..(n - NTest(n)) |-> Permutation(42, n)[k]]

TrainIndex(n) == [k \in 1..(n - NTest(n)) |-> Permutation(42, n)[NTest(n) + k]]

TakeRows(a, index) == [rows |-> [k \in DOMAIN index |-> a.rows[index[k]]], ncols |-> a.ncols]

TakeItems(s, index) == [k \in DOMAIN index |-> s[index[k]]]

\* ZZFeatureMap raises ValueError for fewer than 2 qubits (its interactions are
\* 2-local).
ZZFeatureMapOk(dimension) == dimension >= 2

\* ZZFeatureMap(feature_dimension=d, reps=2, entanglement="linear")
ZZFeatureMap(dimension) ==
  [cls |-> "ZZFeatureMap", feature_dimension |-> dimension, reps |-> 2,
   entanglement |-> "linear", appended |-> 0]

\* A constructor call binds a new object: the next free id.
NewId(h) == Len(h) + 1

Split ==
  /\ pc = "split"
  /\ IF SplitOk(NRows(X_selected))
       THEN /\ X_train' = TakeRows(X_selected, TrainIndex(NRows(X_selected)))
            /\ X_test' = TakeRows(X_selected, TestIndex(NRows(X_selected)))
            /\ y_train' = TakeItems(SignalMask(y_named), TrainIndex(NRows(X_selected)))
            /\ y_test' = TakeItems(SignalMask(y_named), TestIndex(NRows(X_selected)))
            /\ IF ZZFeatureMapOk(X_selected.ncols)
                 THEN /\ heap' = Append(heap, ZZFeatureMap(X_selected.ncols))
                      /\ feature_map' = NewId(heap)
                      /\ defined' = defined \cup {"X_train", "X_test", "y_train", "y_test",
                                                  "feature_map"}
                      /\ pc' = "kernel"
                      /\ failed' = failed
                 ELSE /\ defined' = defined \cup {"X_train", "X_test", "y_train", "y_test"}
                      /\ pc' = "error"
                      /\ failed' = "split"
                      /\ UNCHANGED <<heap, feature_map>>
       ELSE /\ pc' = "error"
            /\ failed' = "split"
            /\ UNCHANGED <<splitVars, heap, feature_map, defined>>
  /\ UNCHANGED <<bkg, sig, X, y, y_named, feature_names, data, scaler>>
  /\ UNCHANGED <<classicalVars, qnnVars>>
  /\ UNCHANGED <<selEnv, selVars>>
  /\ UNCHANGED <<sampler, fidelity, quantum_kernel, adhoc_svc,
                 train_features, test_features, train_labels, test_labels,
                 fid_memo, adhoc_score, y_pred, adhoc_matrix_train, adhoc_matrix_test>>

\* ------------------------------ cell 3f0700c5: sampler, fidelity, kernel, SVC
NotFitted == [fitted |-> FALSE]

\* What fit leaves in an estimator.
Fitted(features, labels, gram) ==
  [fitted |-> TRUE, X |-> features, y |-> labels, gram |-> gram]

DefineKernel ==
  /\ pc = "kernel"
  /\ heap' = heap \o
       << [cls |-> "Sampler"],
          [cls |-> "ComputeUncompute", sampler |-> Len(heap) + 1],
          [cls |-> "FidelityQuantumKernel", fidelity |-> Len(heap) + 2,
           feature_map |-> feature_map],
          [cls |-> "SVC", kernel |-> "callable", kernel_of |-> Len(heap) + 3,
           fit |-> NotFitted] >>
  /\ sampler' = Len(heap) + 1
  /\ fidelity' = Len(heap) + 2
  /\ quantum_kernel' = Len(heap) + 3
  /\ adhoc_svc' = Len(heap) + 4
  /\ train_features' = X_train
  /\ test_features' = X_test
  /\ train_labels' = y_train
  /\ test_labels' = y_test
  /\ defined' = defined \cup {"sampler", "fidelity", "quantum_kernel", "adhoc_svc",
                              "train_features", "test_features", "train_labels",
                              "test_labels"}
  /\ pc' = "fit_qsvm"
  /\ UNCHANGED <<bkg, sig, failed, X, y, y_named, feature_names, data, scaler>>
  /\ UNCHANGED <<classicalVars, qnnVars>>
  /\ UNCHANGED <<selEnv, selVars, splitVars>>
  /\ UNCHANGED <<feature_map, fid_memo, adhoc_score, y_pred, adhoc_matrix_train,
                 adhoc_matrix_test>>

\* ------------------------------------------- FidelityQuantumKernel.evaluate
\* What the sampler can return for the all-zeros outcome of one fidelity
\* circuit: a quasi-probability, which may fall just outside [0, 1].
QuasiProbabilities == (0 - 1)..(FidUnit + 1)

\* (mutant) the sampler's value kept as it is.
KeepFidelity(q) == q

\* ComputeUncompute truncates every fidelity to [0, 1].
TruncateFidelity(q) == Max(0, Min(FidUnit, q))

\* The circuit a kernel evaluates: that of its feature map, as the object is now.
KernelCircuit(h, k) == h[h[k].feature_map]

\* The pair of rows that entry (i, j) is computed from; evaluate treats the
\* matrix as symmetric when y_vec is None or equal to x_vec, computes only the
\* entries above the diagonal, mirrors them and sets the diagonal to 1.
IsSymmetric(x_vec, y_vec) == x_vec = y_vec

EntryKey(h, k, x_vec, y_vec, i, j) ==
  IF IsSymmetric(x_vec, y_vec) /\ i > j
    THEN <<KernelCircuit(h, k), x_vec.rows[j], y_vec.rows[i]>>
    ELSE <<KernelCircuit(h, k), x_vec.rows[i], y_vec.rows[j]>>

\* The fidelities a call has to get from the sampler.
NeededKeys(h, k, x_vec, y_vec) ==
  {EntryKey(h, k, x_vec, y_vec, i, j) :
     <<i, j>> \in {p \in (1..NRows(x_vec)) \X (1..NRows(y_vec)) :
                     ~(IsSymmetric(x_vec, y_vec) /\ p[1] = p[2])}}

\* quantum_kernel.evaluate(x_vec, y_vec) with the sampler's answers in memo: a
\* matrix of NRows(x_vec) rows and NRows(y_vec) columns.  The sampler is exact
\* (Sampler() without shots), so the symmetric matrix is a Gram matrix and the
\* projection on the positive semidefinite matrices (enforce_psd) leaves it as
\* it is.
KernelEvaluate(h, k, memo, x_vec, y_vec) ==
  [i \in 1..NRows(x_vec) |->
     [j \in 1..NRows(y_vec) |->
        IF IsSymmetric(x_vec, y_vec) /\ i = j
          THEN FidUnit
          ELSE TruncateFidelity(memo[EntryKey(h, k, x_vec, y_vec, i, j)])]]

\* ----------------------------------------------------- cell fde1db38: SVC.fit
\* SVC.fit raises ValueError unless the labels hold at least two classes.
FitOk(labels) == \E i, j \in DOMAIN labels : labels[i] # labels[j]

FitQSVM ==
  /\ pc = "fit_qsvm"
  /\ IF FitOk(train_labels)
       THEN \E answers \in [NeededKeys(heap, heap[adhoc_svc].kernel_of, train_features,
                                       train_features) \ DOMAIN fid_memo
                              -> QuasiProbabilities] :
              /\ fid_memo' = answers @@ fid_memo
              /\ heap' = [heap EXCEPT ![adhoc_svc].fit =
                            Fitted(train_features, train_labels,
                                   KernelEvaluate(heap, heap[adhoc_svc].kernel_of,
                                                  answers @@ fid_memo,
                                                  train_features, train_features))]
              /\ pc' = "eval_qsvm"
              /\ failed' = failed
       ELSE /\ pc' = "error"
            /\ failed' = "fit_qsvm"
            /\ UNCHANGED <<heap, fid_memo>>
  /\ UNCHANGED <<bkg, sig, defined, X, y, y_named, feature_names, data, scaler>>
  /\ UNCHANGED <<classicalVars, qnnVars>>
  /\ UNCHANGED <<selEnv, selVars, splitVars>>
  /\ UNCHANGED <<feature_map, sampler, fidelity, quantum_kernel, adhoc_svc,
                 train_features, test_features, train_labels, test_labels,
                 adhoc_score, y_pred, adhoc_matrix_train, adhoc_matrix_test>>

\* --------------------------------------- cell eca2574c: SVC.score, SVC.predict
NoPrediction == [of |-> "nothing"]
NoScore == [of |-> "nothing"]

\* svc.predict(x): the decision of the fitted machine on the kernel between x and
\* the rows it was fitted on.  The solver is a black box: a prediction is kept as
\* what it is a function of.
SvcPredict(h, svc, kernel_rows) ==
  [of |-> "predict", fit |-> h[svc].fit, kernel |-> kernel_rows]

\* svc.score(x, labels): the accuracy of predict(x) against labels.
SvcScore(h, svc, kernel_rows, labels) ==
  [of |-> "score", prediction |-> SvcPredict(h, svc, kernel_rows), labels |-> labels]

EvalQSVM ==
  /\ pc = "eval_qsvm"
  /\ \E answers \in [NeededKeys(heap, heap[adhoc_svc].kernel_of, test_features,
                                heap[adhoc_svc].fit.X) \ DOMAIN fid_memo
                       -> QuasiProbabilities] :
       /\ fid_memo' = answers @@ fid_memo
       /\ y_pred' = SvcPredict(heap, adhoc_svc,
                               KernelEvaluate(heap, heap[adhoc_svc].kernel_of,
                                              answers @@ fid_memo,
                                              test_features, heap[adhoc_svc].fit.X))
       /\ adhoc_score' = SvcScore(heap, adhoc_svc,
                                  KernelEvaluate(heap, heap[adhoc_svc].kernel_of,
                                                 answers @@ fid_memo,
                                                 test_features, heap[adhoc_svc].fit.X),
                                  test_labels)
  /\ defined' = defined \cup {"adhoc_score", "y_pred"}
  /\ pc' = "matrices"
  /\ UNCHANGED <<bkg, sig, failed, X, y, y_named, feature_names, data, scaler>>
  /\ UNCHANGED <<classicalVars, qnnVars>>
  /\ UNCHANGED <<selEnv, selVars, splitVars>>
  /\ UNCHANGED <<heap, feature_map, sampler, fidelity, quantum_kernel, adhoc_svc,
                 train_features, test_features, train_labels, test_labels,
                 adhoc_matrix_train, adhoc_matrix_test>>

\* ------------------------------------------ cell 96276da6: the kernel matrices
\* evaluate(x_vec=train_features): y_vec is None, so it is x_vec.
MatrixTrain(h, k, memo) == KernelEvaluate(h, k, memo, train_features, train_features)

\* evaluate(x_vec=test_features, y_vec=train_features)
MatrixTest(h, k, memo) == KernelEvaluate(h, k, memo, test_features, train_features)

KernelMatrices ==
  /\ pc = "matrices"
  /\ \E answers \in [(NeededKeys(heap, quantum_kernel, train_features, train_features)
                        \cup NeededKeys(heap, quantum_kernel, test_features, train_features))
                       \ DOMAIN fid_memo
                       -> QuasiProbabilities] :
       /\ fid_memo' = answers @@ fid_memo
       /\ adhoc_matrix_train' = MatrixTrain(heap, quantum_kernel, answers @@ fid_memo)
       /\ adhoc_matrix_test' = MatrixTest(heap, quantum_kernel, answers @@ fid_memo)
  /\ defined' = defined \cup {"adhoc_matrix_train", "adhoc_matrix_test"}
  /\ pc' = "fit_classical"
  /\ UNCHANGED <<bkg, sig, failed, X, y, y_named, feature_names, data, scaler>>
  /\ UNCHANGED <<classicalVars, qnnVars>>
  /\ UNCHANGED <<selEnv, selVars, splitVars>>
  /\ UNCHANGED <<heap, feature_map, sampler, fidelity, quantum_kernel, adhoc_svc,
                 train_features, test_features, train_labels, test_labels,
                 adhoc_score, y_pred>>

\* ------------------------------------- cell 5ed26855: the classical linear SVC
\* (mutant) the fit called on adhoc_svc, set to a linear kernel, and not on a new
\* SVC.
FitClassicalOnAdhoc ==
  /\ pc = "fit_classical"
  /\ heap' = [heap EXCEPT ![adhoc_svc] =
                [cls |-> "SVC", kernel |-> "linear", kernel_of |-> 0,
                 fit |-> Fitted(train_features, train_labels, <<>>)]]
  /\ classical_svc' = adhoc_svc
  /\ defined' = defined \cup {"classical_svc"}
  /\ pc' = "eval_classical"
  /\ UNCHANGED <<bkg, sig, failed, X, y, y_named, feature_names, data, scaler>>
  /\ UNCHANGED <<selEnv, selVars, splitVars, qnnVars>>
  /\ UNCHANGED <<feature_map, sampler, fidelity, quantum_kernel, adhoc_svc,
                 train_features, test_features, train_labels, test_labels,
                 fid_memo, adhoc_score, y_pred, adhoc_matrix_train, adhoc_matrix_test,
                 classical_score, y_pred_classical>>

\* classical_svc = SVC(kernel='linear'); classical_svc.fit(train_features,
\* train_labels).  The labels hold two classes: adhoc_svc.fit did not raise.
FitClassical ==
  /\ pc = "fit_classical"
  /\ heap' = Append(heap, [cls |-> "SVC", kernel |-> "linear", kernel_of |-> 0,
                           fit |-> Fitted(train_features, train_labels, <<>>)])
  /\ classical_svc' = NewId(heap)
  /\ defined' = defined \cup {"classical_svc"}
  /\ pc' = "eval_classical"
  /\ UNCHANGED <<bkg, sig, failed, X, y, y_named, feature_names, data, scaler>>
  /\ UNCHANGED <<selEnv, selVars, splitVars, qnnVars>>
  /\ UNCHANGED <<feature_map, sampler, fidelity, quantum_kernel, adhoc_svc,
                 train_features, test_features, train_labels, test_labels,
                 fid_memo, adhoc_score, y_pred, adhoc_matrix_train, adhoc_matrix_test,
                 classical_score, y_pred_classical>>

\* ------------------------------------------ cell b6c4615d: its score, predict
EvalClassical ==
  /\ pc = "eval_classical"
  /\ classical_score' = SvcScore(heap, classical_svc, test_features.rows, test_labels)
  /\ y_pred_classical' = SvcPredict(heap, classical_svc, test_features.rows)
  /\ defined' = defined \cup {"classical_score", "y_pred_classical"}
  /\ pc' = "qnn_circuits"
  /\ UNCHANGED <<bkg, sig, failed, X, y, y_named, feature_names, data, scaler>>
  /\ UNCHANGED <<selEnv, selVars, splitVars, kernelVars, classical_svc, qnnVars>>

\* --------------------------------------- cell c0df7832: feature map and ansatz
\* TwoLocal(n, ['ry', 'rz'], 'cz', reps=2, entanglement="full")
TwoLocal(n) ==
  [cls |-> "TwoLocal", num_qubits |-> n, rotation_blocks |-> <<"ry", "rz">>,
   entanglement_blocks |-> "cz", reps |-> 2, entanglement |-> "full"]

QnnCircuits ==
  /\ pc = "qnn_circuits"
  /\ heap' = heap \o <<ZZFeatureMap(X_selected.ncols), TwoLocal(X_selected.ncols)>>
  /\ feature_map' = Len(heap) + 1
  /\ ansatz' = Len(heap) + 2
  /\ defined' = defined \cup {"ansatz"}
  /\ pc' = "qnn_network"
  /\ UNCHANGED <<bkg, sig, failed, X, y, y_named, feature_names, data, scaler>>
  /\ UNCHANGED <<selEnv, selVars, splitVars, classicalVars>>
  /\ UNCHANGED <<sampler, fidelity, quantum_kernel, adhoc_svc,
                 train_features, test_features, train_labels, test_labels,
                 fid_memo, adhoc_score, y_pred, adhoc_matrix_train, adhoc_matrix_test>>
  /\ UNCHANGED <<qc, sampler_qnn, classifier, qnn_quasi_dists, qnn_forward, y_pred_qnn>>

\* ------------------------------------------ cell cbc117e2: circuit, SamplerQNN
\* feature_map.compose(ansatz): a new circuit, the two left as they are.
Compose(first, second) == [cls |-> "QuantumCircuit", parts |-> <<first, second>>,
                           num_qubits |-> first.feature_dimension]

\* (mutant) the parity of the measured bitstring given as interpret, with
\* output_shape=2.
SamplerQNNWithParity(circuit_id, circuit, sampler_id) ==
  [cls |-> "SamplerQNN", circuit |-> circuit_id, sampler |-> sampler_id,
   interpret |-> "parity", output_shape |-> 2]

\* SamplerQNN(circuit=qc, input_params=..., weight_params=..., sampler=sampler):
\* no interpret is given, so it is the identity on the measured integer and
\* output_shape is 2^num_qubits.
SamplerQNN(circuit_id, circuit, sampler_id) ==
  [cls |-> "SamplerQNN", circuit |-> circuit_id, sampler |-> sampler_id,
   interpret |-> "identity", output_shape |-> Pow2(circuit.num_qubits)]

QnnNetwork ==
  /\ pc = "qnn_network"
  /\ heap' = heap \o
       << Compose(heap[feature_map], heap[ansatz]),
          [cls |-> "Sampler"],
          SamplerQNN(Len(heap) + 1, Compose(heap[feature_map], heap[ansatz]),
                     Len(heap) + 2) >>
  /\ qc' = Len(heap) + 1
  /\ sampler' = Len(heap) + 2
  /\ sampler_qnn' = Len(heap) + 3
  /\ defined' = defined \cup {"qc", "sampler_qnn"}
  /\ pc' = "qnn_classifier"
  /\ UNCHANGED <<bkg, sig, failed, X, y, y_named, feature_names, data, scaler>>
  /\ UNCHANGED <<selEnv, selVars, splitVars, classicalVars>>
  /\ UNCHANGED <<feature_map, fidelity, quantum_kernel, adhoc_svc,
                 train_features, test_features, train_labels, test_labels,
                 fid_memo, adhoc_score, y_pred, adhoc_matrix_train, adhoc_matrix_test>>
  /\ UNCHANGED <<ansatz, classifier, qnn_quasi_dists, qnn_forward, y_pred_qnn>>

\* ------------------------------------ cell 6893d536: NeuralNetworkClassifier
QnnClassifier ==
  /\ pc = "qnn_classifier"
  /\ heap' = Append(heap, [cls |-> "NeuralNetworkClassifier",
                           neural_network |-> sampler_qnn, optimizer |-> "COBYLA",
                           maxiter |-> 30, one_hot |-> FALSE, fit |-> NotFitted])
  /\ classifier' = NewId(heap)
  /\ defined' = defined \cup {"classifier"}
  /\ pc' = "qnn_fit"
  /\ UNCHANGED <<bkg, sig, failed, X, y, y_named, feature_names, data, scaler>>
  /\ UNCHANGED <<selEnv, selVars, splitVars, classicalVars>>
  /\ UNCHANGED <<feature_map, sampler, fidelity, quantum_kernel, adhoc_svc,
                 train_features, test_features, train_labels, test_labels,
                 fid_memo, adhoc_score, y_pred, adhoc_matrix_train, adhoc_matrix_test>>
  /\ UNCHANGED <<ansatz, qc, sampler_qnn, qnn_quasi_dists, qnn_forward, y_pred_qnn>>

\* ---------------------------------------------- cell a531dd0d: classifier.fit
QnnFit ==
  /\ pc = "qnn_fit"
  /\ heap' = [heap EXCEPT ![classifier].fit = Fitted(X_train, y_train, <<>>)]
  /\ pc' = "qnn_predict"
  /\ UNCHANGED <<bkg, sig, failed, defined, X, y, y_named, feature_names, data, scaler>>
  /\ UNCHANGED <<selEnv, selVars, splitVars, classicalVars>>
  /\ UNCHANGED <<feature_map, sampler, fidelity, quantum_kernel, adhoc_svc,
                 train_features, test_features, train_labels, test_labels,
                 fid_memo, adhoc_score, y_pred, adhoc_matrix_train, adhoc_matrix_test>>
  /\ UNCHANGED <<ansatz, qc, sampler_qnn, classifier, qnn_quasi_dists, qnn_forward,
                 y_pred_qnn>>

\* ------------------------------------------ cell 2efc1329: classifier.predict
\* The quasi-distributions a sampler can return over the bitstrings 0 .. n - 1:
\* the probabilities add up to 1.
QuasiDistributions(n) ==
  {d \in [0..(n - 1) -> 0..FidUnit] : SumSeq([b \in 1..n |-> d[b - 1]]) = FidUnit}

\* Number of 1 bits of b, modulo 2.
RECURSIVE Parity(_)
Parity(b) == IF b = 0 THEN 0 ELSE ((b % 2) + Parity(b \div 2)) % 2

\* The class interpret gives to bitstring b.
Interpret(qnn, b) == IF qnn.interpret = "parity" THEN Parity(b) ELSE b

\* SamplerQNN.forward for one input: the probability of every class, entry c + 1
\* for class c.
Forward(qnn, dist) ==
  [c1 \in 1..qnn.output_shape |->
     SumSeq([b1 \in 1..Cardinality(DOMAIN dist) |->
               IF Interpret(qnn, b1 - 1) = c1 - 1 THEN dist[b1 - 1] ELSE 0])]

\* np.argmax: the first index of the largest entry (0-based).
ArgMax(v) == (CHOOSE c \in DOMAIN v :
                /\ \A d \in DOMAIN v : v[d] <= v[c]
                /\ \A d \in DOMAIN v : d < c => v[d] < v[c]) - 1

QnnPredict ==
  /\ pc = "qnn_predict"
  /\ \E dists \in [1..NRows(X_test) ->
                     QuasiDistributions(Pow2(heap[heap[heap[classifier].neural_network].circuit]
                                               .num_qubits))] :
       /\ qnn_quasi_dists' = dists
       /\ qnn_forward' = [i \in 1..NRows(X_test) |->
                            Forward(heap[heap[classifier].neural_network], dists[i])]
       /\ y_pred_qnn' = [i \in 1..NRows(X_test) |->
                           ArgMax(Forward(heap[heap[classifier].neural_network], dists[i]))]
  /\ defined' = defined \cup {"y_pred_qnn"}
  /\ pc' = "done"
  /\ UNCHANGED <<bkg, sig, failed, X, y, y_named, feature_names, data, scaler>>
  /\ UNCHANGED <<selEnv, selVars, splitVars, kernelVars, classicalVars>>
  /\ UNCHANGED <<ansatz, qc, sampler_qnn, classifier>>

\* --------------------------------------------------------------- initial states

InitNamespace ==
  /\ pc = "load"
  /\ failed = ""
  /\ defined = {}
  /\ X = NoArray
  /\ y = <<>>
  /\ y_named = <<>>
  /\ feature_names = 0
  /\ data = <<>>
  /\ scaler = [n |-> 0, sum |-> <<>>, sumsq |-> <<>>]
  /\ mi_labels = <<>>
  /\ mi_scores = <<>>
  /\ mi_scores_df = <<>>
  /\ top_features = <<>>
  /\ X_selected = NoArray
  /\ mi_runs = 0
  /\ prev_top_features = <<>>
  /\ prev_X_selected = NoArray
  /\ X_train = NoArray
  /\ X_test = NoArray
  /\ y_train = <<>>
  /\ y_test = <<>>
  /\ heap = <<>>
  /\ feature_map = 0
  /\ sampler = 0
  /\ fidelity = 0
  /\ quantum_kernel = 0
  /\ adhoc_svc = 0
  /\ train_features = NoArray
  /\ test_features = NoArray
  /\ train_labels = <<>>
  /\ test_labels = <<>>
  /\ fid_memo = <<>>
  /\ adhoc_score = NoScore
  /\ y_pred = NoPrediction
  /\ adhoc_matrix_train = <<>>
  /\ adhoc_matrix_test = <<>>
  /\ classical_svc = 0
  /\ classical_score = NoScore
  /\ y_pred_classical = NoPrediction
  /\ ansatz = 0
  /\ qc = 0
  /\ sampler_qnn = 0
  /\ classifier = 0
  /\ qnn_quasi_dists = <<>>
  /\ qnn_forward = <<>>
  /\ y_pred_qnn = <<>>

Identity(n) == [i \in 1..n |-> i]

\* ------------------------------------------------------- the preprocessing run
\* Any two input arrays of one or two columns each and MaxRows rows together.
InitPre ==
  /\ \E Fb \in FeatureCounts, Fs \in FeatureCounts :
       /\ bkg \in Arrays(Fb)
       /\ sig \in Arrays(Fs)
  /\ NRows(bkg) + NRows(sig) <= MaxRows
  /\ InitNamespace
  /\ np_random = 0
  /\ mi_knn = [f \in 1..bkg.ncols |-> 0]
  /\ sort_tie_order = Identity(bkg.ncols)

NextPre == LoadDataset \/ BuildFrame \/ Subsample

SpecPre == InitPre /\ [][NextPre]_vars

\* ------------------------------------------------------ the feature-selection run
\* A dataset of n rows and F columns whose columns all differ: row i has 1 in the
\* columns f >= i and 0 before; the first nb rows are the background.
Staircase(from, to, F) ==
  [rows |-> [i \in 1..(to - from + 1) |-> [f \in 1..F |-> IF from + i - 1 <= f THEN 1 ELSE 0]],
   ncols |-> F]

\* Datasets of 1..MaxFeatures columns with max_samples..MaxRows rows, one of them
\* background; any estimator values, any tie order of the sort, any state of the
\* global generator.
InitSel ==
  /\ \E F \in 1..MaxFeatures, n \in max_samples..MaxRows :
       /\ bkg = Staircase(1, 1, F)
       /\ sig = Staircase(2, n, F)
       /\ mi_knn \in [1..F -> KnnEstimates]
       /\ sort_tie_order \in Permutations(1..F)
  /\ np_random \in 0..MaxRngState
  /\ InitNamespace

NextSel == LoadDataset \/ BuildFrame \/ Subsample \/ MutualInfo \/ SelectTop
             \/ RerunFeatureSelection

SpecSel == InitSel /\ [][NextSel]_vars

\* ------------------------------------------------- the linear run up to the split
\* The cells from the loader to the split, each executed once in notebook order,
\* on the datasets of the feature-selection run.
NextLinear == LoadDataset \/ BuildFrame \/ Subsample \/ MutualInfo \/ SelectTop \/ Split

SpecLinear == InitSel /\ [][NextLinear]_vars

\* ------------------------------------------------------------- the whole notebook
\* A dataset whose background rows are all 0 and whose signal rows are all 1.
ConstantRows(n, F, v) == [rows |-> [i \in 1..n |-> [f \in 1..F |-> v]], ncols |-> F]

\* Datasets of 1..MaxFeatures columns and max_samples..MaxRows rows with rows of
\* both classes; the columns are equal, so the estimator gives them one value, 0
\* or 1; a stable sort, one generator state.
Init ==
  /\ \E F \in 1..MaxFeatures, n \in max_samples..MaxRows, nb \in 1..(MaxRows - 1) :
       /\ nb < n
       /\ bkg = ConstantRows(nb, F, 0)
       /\ sig = ConstantRows(n - nb, F, 1)
       /\ mi_knn \in {[f \in 1..F |-> v] : v \in {0, 1}}
       /\ sort_tie_order = Identity(F)
  /\ np_random = 0
  /\ InitNamespace

Next == LoadDataset \/ BuildFrame \/ Subsample \/ MutualInfo \/ SelectTop \/ Split
          \/ DefineKernel \/ FitQSVM \/ EvalQSVM \/ KernelMatrices
          \/ FitClassical \/ EvalClassical
          \/ QnnCircuits \/ QnnNetwork \/ QnnClassifier \/ QnnFit \/ QnnPredict

Spec == Init /\ [][Next]_vars

\* ======================================================================
\* Properties
\* ======================================================================
NBkg == NRows(bkg)
NSig == NRows(sig)

\* The subsample cell has run and did not raise.
Sampled == "max_samples" \in defined /\ failed # "subsample"

Count(s, v) == Cardinality({i \in DOMAIN s : s[i] = v})

\* ---- statistics of a column of standardized values <<num, den2>> (one den2)
Nums(col) == [i \in DOMAIN col |-> col[i][1]]
SqNums(col) == [i \in DOMAIN col |-> col[i][1] * col[i][1]]
Den2(col) == col[1][2]
\* m^2 * den2 * variance of the column (population variance).
VarNumer(col) == Len(col) * SumSeq(SqNums(col)) - SumSeq(Nums(col)) * SumSeq(Nums(col))
\* |mean| <= 1/100
MeanIsZero(col) ==
  100 * 100 * SumSeq(Nums(col)) * SumSeq(Nums(col)) <= Len(col) * Len(col) * Den2(col)
\* |variance - target| <= 1/100, target 0 or 1
VarianceIs(col, target) ==
  100 * Abs(VarNumer(col) - target * Len(col) * Len(col) * Den2(col))
    <= Len(col) * Len(col) * Den2(col)
IsConstant(col) == \A i, j \in DOMAIN col : col[i] = col[j]

\* C1: the loader's X has n_bkg + n_sig rows of F columns, y has the same length
\* with n_bkg zeros and n_sig ones, the first n_bkg rows of X are bkg's rows
\* labelled 0 and the last n_sig rows are sig's rows labelled 1.
C1_LoaderCombines ==
  (pc = "frame") =>
     /\ NRows(X) = NBkg + NSig
     /\ X.ncols = bkg.ncols
     /\ \A i \in 1..NRows(X) : Len(X.rows[i]) = bkg.ncols
     /\ Len(y) = NRows(X)
     /\ Count(y, 0) = NBkg
     /\ Count(y, 1) = NSig
     /\ \A i \in 1..NBkg : X.rows[i] = bkg.rows[i] /\ y[i] = 0
     /\ \A i \in 1..NSig : X.rows[NBkg + i] = sig.rows[i] /\ y[NBkg + i] = 1
     /\ \A i \in 1..Len(y) : y_named[i] = (IF y[i] = 0 THEN "Background" ELSE "Signal")

C1_Witness ==
  /\ pc = "frame"
  /\ NBkg >= 1
  /\ NSig >= 2
  /\ bkg.ncols = 2
  /\ bkg.rows[1] # sig.rows[1]

\* C2 (as claimed): after standardization and subsampling every feature column of
\* the subsampled rows has mean 0 and variance 1 (within 1/100).  Read in the
\* claim's favour: only columns that are not constant over the combined dataset
\* are looked at (a constant column is scaled by 1 and has variance 0).
C2_SubsetStandardized ==
  Sampled =>
    \A f \in 1..X.ncols :
      ~IsConstant(Column(VStack(bkg, sig).rows, f)) =>
         /\ MeanIsZero(Column(X.rows, f))
         /\ VarianceIs(Column(X.rows, f), 1)

\* C2 (amended): the statistics are those of the full combined dataset: before
\* subsampling every column of the standardized frame has mean 0 and variance 1
\* (variance 0 when the raw column is constant); the subsampled rows have them
\* when the subsample is the whole dataset.
C2_FullDatasetStandardized ==
  /\ (pc = "subsample") =>
        \A f \in 1..feature_names :
          LET col == [i \in 1..Len(data) |-> data[i].feat[f]]
              raw == Column(VStack(bkg, sig).rows, f)
          IN  /\ MeanIsZero(col)
              /\ VarianceIs(col, IF IsConstant(raw) THEN 0 ELSE 1)
  /\ (Sampled /\ NBkg + NSig = max_samples) =>
        \A f \in 1..X.ncols :
          LET raw == Column(VStack(bkg, sig).rows, f)
          IN  /\ MeanIsZero(Column(X.rows, f))
              /\ VarianceIs(Column(X.rows, f), IF IsConstant(raw) THEN 0 ELSE 1)

C2_Witness ==
  /\ Sampled
  /\ NBkg + NSig = max_samples
  /\ X.ncols = 2
  /\ ~IsConstant(Column(VStack(bkg, sig).rows, 1))
  /\ ~IsConstant(Column(VStack(bkg, sig).rows, 2))

\* RandomState(42).permutation(n)[:max_samples] for n = 1, 2, ... (1-based), as
\* numpy returns it.
ExpectedPermutation42 ==
  << <<1>>, <<2, 1>>, <<1, 2, 3>>, <<2, 4, 1, 3>>, <<2, 5, 3, 1, 4>>,
     <<1, 2, 6, 3, 5, 4>>, <<1, 2, 6, 3, 5, 4, 7>>, <<2, 6, 1, 8, 3, 5, 4, 7>> >>

\* C3: with at least max_samples combined rows the subsample cell does not raise
\* and leaves exactly max_samples rows of the same F columns, each a distinct row
\* of the standardized dataset, and the rows chosen and their order depend on the
\* number of rows alone (seed 42).
C3_SubsampleExact ==
  /\ (failed = "subsample") => NBkg + NSig < max_samples
  /\ Sampled =>
       LET full == ScalerTransform(scaler, VStack(bkg, sig).rows, bkg.ncols)
       IN  /\ Len(data) = max_samples
           /\ NRows(X) = max_samples
           /\ Len(y_named) = max_samples
           /\ X.ncols = bkg.ncols
           /\ \A k \in 1..max_samples :
                /\ Len(X.rows[k]) = bkg.ncols
                /\ data[k].idx \in 1..(NBkg + NSig)
                /\ X.rows[k] = full[data[k].idx]
                /\ data[k].feat = X.rows[k]
                /\ data[k].idx = ExpectedPermutation42[NBkg + NSig][k]
           /\ \A k, l \in 1..max_samples : k # l => data[k].idx # data[l].idx

C3_Witness ==
  /\ Sampled
  /\ NBkg + NSig > max_samples
  /\ \E k \in 1..max_samples : data[k].idx # k
  /\ \E k, l \in 1..max_samples : X.rows[k] # X.rows[l]

\* C7: arrays of different column counts make the loader raise: X and y are
\* never bound and no later cell runs.
C7_MismatchFails ==
  (bkg.ncols # sig.ncols) =>
     /\ pc \in {"load", "error"}
     /\ (pc = "error" => failed = "load")
     /\ defined = {}
     /\ X = NoArray
     /\ y = <<>>
     /\ data = <<>>

C7_Witness ==
  /\ bkg.ncols # sig.ncols
  /\ NBkg >= 1
  /\ NSig >= 1
  /\ pc = "error"
  /\ failed = "load"

\* C8: with max_samples above the number of combined rows the subsample cell
\* raises: data, X and y_named keep their values, nothing is returned, and the
\* run stops there (no retry).
C8_SubsampleAborts ==
  [][ /\ (pc = "subsample" /\ Len(data) < max_samples) =>
           /\ pc' = "error"
           /\ failed' = "subsample"
           /\ data' = data
           /\ X' = X
           /\ y_named' = y_named
      /\ (pc = "error") => UNCHANGED vars ]_vars

C8_Witness ==
  /\ pc = "error"
  /\ failed = "subsample"
  /\ Len(data) >= 1
  /\ Len(data) < max_samples
  /\ NRows(X) = Len(data)
  /\ X = VStack(bkg, sig)

\* The feature-selection cells have run and their results are current.
Selected ==
  /\ "top_features" \in defined
  /\ pc \notin {"load", "frame", "subsample", "mi", "select"}

Selects(f) == \E k \in DOMAIN top_features : top_features[k] = f

\* C4 (as claimed): exactly two features are kept, the two of highest score in
\* descending order, no unselected feature scores strictly higher than a selected
\* one, and of two features of equal score the one that is first in the original
\* feature order is ranked, and selected, first.  Read in the claim's favour:
\* for datasets of at least two features.
C4_TopTwoStable ==
  (Selected /\ X.ncols >= 2) =>
     /\ Len(top_features) = 2
     /\ mi_scores[top_features[1]] >= mi_scores[top_features[2]]
     /\ \A f \in 1..X.ncols : \A k \in 1..2 :
          ~Selects(f) => mi_scores[f] <= mi_scores[top_features[k]]
     /\ \A k, l \in 1..Len(mi_scores_df) :
          (k < l /\ mi_scores_df[k].Score = mi_scores_df[l].Score)
             => mi_scores_df[k].Feature < mi_scores_df[l].Feature

\* C4 (amended): min(2, F) features are kept, the first rows of the ranking; the
\* ranking lists every feature once with its score, in descending score order, so
\* no unselected feature scores strictly higher than a selected one; X_selected
\* holds the selected columns in ranking order.  Nothing is said of the order of
\* features of equal score.
C4_TopTwoByScore ==
  Selected =>
     /\ Len(top_features) = Min(2, X.ncols)
     /\ Len(mi_scores_df) = X.ncols
     /\ \A f \in 1..X.ncols : \E k \in 1..X.ncols : mi_scores_df[k].Feature = f
     /\ \A k \in 1..X.ncols : mi_scores_df[k].Score = mi_scores[mi_scores_df[k].Feature]
     /\ \A k, l \in 1..X.ncols : k < l => mi_scores_df[k].Score >= mi_scores_df[l].Score
     /\ \A k \in DOMAIN top_features : top_features[k] = mi_scores_df[k].Feature
     /\ \A f \in 1..X.ncols : \A k \in DOMAIN top_features :
          ~Selects(f) => mi_scores[f] <= mi_scores[top_features[k]]
     /\ X_selected.ncols = Len(top_features)
     /\ \A i \in 1..Len(data) : \A k \in DOMAIN top_features :
          X_selected.rows[i][k] = data[i].feat[top_features[k]]

C4_Witness ==
  /\ Selected
  /\ X.ncols = 3
  /\ Len(top_features) = 2
  /\ top_features[1] > top_features[2]
  /\ mi_scores[top_features[1]] > mi_scores[top_features[2]]
  /\ \A f \in 1..3 : ~Selects(f) => mi_scores[f] < mi_scores[top_features[2]]

\* C5: a second execution of the ranking step on the same subsampled features
\* and labels selects the same top-K features.  Read in the claim's favour: the
\* same set of features, whatever their order (the claim also wants the same
\* ranking and the same X_selected).
C5_RankingDeterministic ==
  (pc = "split" /\ mi_runs >= 2) =>
     {top_features[k] : k \in DOMAIN top_features}
       = {prev_top_features[k] : k \in DOMAIN prev_top_features}

\* ---- kernel matrices
InUnitInterval(m) == \A i \in DOMAIN m : \A j \in DOMAIN m[i] : m[i][j] \in 0..FidUnit

HasShape(m, nrows, ncols) ==
  /\ DOMAIN m = 1..nrows
  /\ \A i \in DOMAIN m : DOMAIN m[i] = 1..ncols

SymmetricMatrix(m) == \A i \in DOMAIN m : \A j \in DOMAIN m : m[i][j] = m[j][i]

ParityProbability(dist, c) ==
  SumSeq([b1 \in 1..Cardinality(DOMAIN dist) |->
            IF Parity(b1 - 1) = c THEN dist[b1 - 1] ELSE 0])

\* C9: the network output for every sample has dimension 2, and the
\* probability of class c is the total probability of the bitstrings whose
\* number of 1 bits has parity c.
C9_ParityMapping ==
  "y_pred_qnn" \in defined =>
    \A i \in DOMAIN qnn_forward :
      /\ DOMAIN qnn_forward[i] = 1..2
      /\ \A c \in 0..1 : qnn_forward[i][c + 1] = ParityProbability(qnn_quasi_dists[i], c)

\* ---- the three training paths
QsvmTrained == adhoc_svc # 0 /\ heap[adhoc_svc].fit.fitted

\* The objects the quantum-kernel SVM is made of, in heap h: the SVC, its kernel,
\* the kernel's fidelity, the fidelity's sampler, the kernel's feature map.
QsvmObjects(h) ==
  << h[adhoc_svc], h[quantum_kernel], h[h[quantum_kernel].fidelity],
     h[h[h[quantum_kernel].fidelity].sampler], KernelCircuit(h, quantum_kernel) >>

\* Every estimator fitted so far in heap h was fitted on features and labels.
AllFittedOn(h, estimators, features, labels) ==
  \A id \in estimators \ {0} :
    h[id].fit.fitted => h[id].fit.X = features /\ h[id].fit.y = labels

\* C10: every step of the notebook keeps X_train, X_test, y_train, y_test as the
\* split made them; after it every fitted estimator of the three was fitted on
\* X_train / y_train and every prediction and score made was made on X_test /
\* y_test; and once the quantum-kernel SVM is trained every step (the classical
\* SVM's cells, the variational classifier's cells with feature_map and sampler
\* rebound) leaves the SVM, its kernel, the kernel's fidelity, sampler and
\* feature map, the kernel's values and the SVM's predictions and score as they
\* are.
C10_PathsIndependent ==
  [][ /\ "X_train" \in defined => splitVars' = splitVars
      /\ AllFittedOn(heap', {adhoc_svc', classical_svc', classifier'}, X_train', y_train')
      /\ "y_pred" \in defined' =>
           /\ y_pred'.kernel = KernelEvaluate(heap', quantum_kernel', fid_memo',
                                              X_test', X_train')
           /\ adhoc_score'.labels = y_test'
      /\ "y_pred_classical" \in defined' =>
           /\ y_pred_classical'.kernel = X_test'.rows
           /\ classical_score'.labels = y_test'
      /\ "y_pred_qnn" \in defined' => DOMAIN y_pred_qnn' = 1..NRows(X_test')
      /\ QsvmTrained =>
           /\ adhoc_svc' = adhoc_svc
           /\ quantum_kernel' = quantum_kernel
           /\ QsvmObjects(heap') = QsvmObjects(heap)
           /\ \A k \in DOMAIN fid_memo : k \in DOMAIN fid_memo' /\ fid_memo'[k] = fid_memo[k]
      /\ "y_pred" \in defined => y_pred' = y_pred /\ adhoc_score' = adhoc_score
      /\ "adhoc_matrix_train" \in defined =>
           /\ adhoc_matrix_train' = adhoc_matrix_train
           /\ adhoc_matrix_test' = adhoc_matrix_test
    ]_vars

\* The three are trained and have predicted, and the names feature_map and
\* sampler no longer denote the objects the quantum kernel holds.
C10_Witness ==
  /\ pc = "done"
  /\ heap[adhoc_svc].fit.fitted
  /\ heap[classical_svc].fit.fitted
  /\ heap[classifier].fit.fitted
  /\ feature_map # heap[quantum_kernel].feature_map
  /\ sampler # heap[heap[quantum_kernel].fidelity].sampler
  /\ "y_pred" \in defined /\ "y_pred_classical" \in defined /\ "y_pred_qnn" \in defined

\* ---- alignment of features and labels
\* The sample at position j of the combined dataset as loaded: its standardized
\* features and its label.
OriginalFeatures(j) == ScalerTransform(scaler, VStack(bkg, sig).rows, bkg.ncols)[j]

OriginalLabel(j) == label_mapping(HStackLabels(NBkg, NSig)[j])

\* The original sample that row i of the subsampled frame is (data.index[i]).
OriginalOf(i) == data[i].idx

\* Rows at positions index of X_selected and of the labels derived from y_named
\* are the rows of features and labels, one for one.
RowsAt(index, from, features, labels) ==
  /\ NRows(features) = Len(labels)
  /\ \A k \in 1..Len(labels) :
       /\ features.rows[k] = X_selected.rows[index[from + k]]
       /\ labels[k] = (IF y_named[index[from + k]] = "Signal" THEN 1 ELSE 0)
       /\ y_named[index[from + k]] = OriginalLabel(OriginalOf(index[from + k]))

\* C11: after the subsample cell X and y_named have max_samples rows, row i of
\* both being one original sample (standardized features, label) and no
\* original sample being taken twice; the labels given to mutual_info_classif
\* are the 0/1 form of this y_named; the split puts every subsampled row in
\* exactly one of X_train (with its label in y_train) and X_test (with its
\* label in y_test), the test set holding ceil(20%) of the rows.
C11_RowsAligned ==
  /\ (Sampled /\ pc # "subsample") =>
       /\ NRows(X) = max_samples
       /\ Len(y_named) = max_samples
       /\ \A i \in 1..max_samples :
            /\ X.rows[i] = OriginalFeatures(OriginalOf(i))
            /\ y_named[i] = OriginalLabel(OriginalOf(i))
       /\ \A i, j \in 1..max_samples : OriginalOf(i) = OriginalOf(j) => i = j
  /\ "mi_scores" \in defined =>
       /\ Len(mi_labels) = max_samples
       /\ \A i \in 1..max_samples :
            mi_labels[i] = 1 <=> OriginalLabel(OriginalOf(i)) = "Signal"
  /\ "X_train" \in defined =>
       /\ NRows(X_train) + NRows(X_test) = max_samples
       /\ 5 * NRows(X_test) >= max_samples
       /\ 5 * (NRows(X_test) - 1) < max_samples
       /\ \E index \in Permutations(1..max_samples) :
            /\ RowsAt(index, 0, X_test, y_test)
            /\ RowsAt(index, NRows(X_test), X_train, y_train)

\* The split has run on a subsample that is not in the original order, holds
\* rows of both classes, and whose rows differ in the selected features; the
\* full dataset is longer than the subsample.
C11_Witness ==
  /\ "X_train" \in defined
  /\ NRows(X_train) >= 2
  /\ NRows(X_test) >= 1
  /\ Len(y) > max_samples
  /\ \E i \in 1..max_samples : OriginalOf(i) # i
  /\ \E i, j \in 1..max_samples : y_named[i] # y_named[j]
  /\ \A i, j \in 1..max_samples : X_selected.rows[i] = X_selected.rows[j] => i = j

====
